---- MODULE Spec2Model ----
(***************************************************************************)
(* libdns provider for DigitalOcean DNS: the record translator (model.go), *)
(* the paginated lister and the entry mutators (client.go), and the        *)
(* libdns facade GetRecords/AppendRecords/DeleteRecords/SetRecords that    *)
(* drives them, run by concurrent callers against one Provider value and   *)
(* one DigitalOcean zone.                                                  *)
(*                                                                         *)
(* Strings that the code inspects (record identifiers, zone names) are     *)
(* sequences of one-character strings; strings it only copies (Name, Type, *)
(* Data) are TLA+ strings.  A time.Duration is an integer number of        *)
(* nanoseconds.                                                            *)
(***************************************************************************)
EXTENDS Integers, Sequences, FiniteSets, TLC

\* ------------------------------------------------------------------ bounds

\* Concurrent callers of the one Provider value.
Procs == {"c1", "c2"}

\* Longest batch handed to AppendRecords/DeleteRecords/SetRecords.
MaxBatch == 2

\* Creations the provider accepts before it refuses further ones.
MaxCreates == 2

\* Records per page of the provider's listing.
PerPage == 2

\* The numeric ID the provider assigns to the first record created.
FirstID == 10

\* time.Second, in nanoseconds.
Second == 1000000000

\* Longest zone name handed to unFQDN on its own.
MaxZoneLen == 4

\* ----------------------------------------------------------- strconv

Digits == <<"0", "1", "2", "3", "4", "5", "6", "7", "8", "9">>

IsDigit(c) == \E i \in 1..10 : Digits[i] = c

DigitVal(c) == (CHOOSE i \in 1..10 : Digits[i] = c) - 1

RECURSIVE DecimalValue(_)
DecimalValue(s) ==
    IF s = <<>> THEN 0
    ELSE 10 * DecimalValue(SubSeq(s, 1, Len(s) - 1)) + DigitVal(s[Len(s)])

\* strconv.Atoi: an optional sign, then one or more decimal digits.
Atoi(s) ==
    LET signed == s # <<>> /\ s[1] \in {"+", "-"}
        body   == IF signed THEN Tail(s) ELSE s
    IN  IF body = <<>> \/ \E i \in 1..Len(body) : ~IsDigit(body[i])
        THEN [ok |-> FALSE, val |-> 0]
        ELSE [ok |-> TRUE,
              val |-> IF signed /\ s[1] = "-" THEN 0 - DecimalValue(body)
                      ELSE DecimalValue(body)]

RECURSIVE FormatUint(_)
FormatUint(n) ==
    IF n < 10 THEN <<Digits[n + 1]>>
    ELSE FormatUint(n \div 10) \o <<Digits[(n % 10) + 1]>>

\* strconv.Itoa: the shortest decimal rendering, "-" first when negative.
Itoa(n) == IF n < 0 THEN <<"-">> \o FormatUint(0 - n) ELSE FormatUint(n)

\* --------------------------------------------------------------- model.go

\* Whole seconds of a duration, rounded to the nearest one.
Seconds_Rounded(d) ==
    LET a == IF d >= 0 THEN d ELSE 0 - d
        r == (a \div Second) + (IF a % Second >= 500000000 THEN 1 ELSE 0)
    IN  IF d >= 0 THEN r ELSE 0 - r

\* int(d.Seconds()): whole seconds of a duration, truncated toward zero.
Seconds(d) == IF d >= 0 THEN d \div Second ELSE 0 - ((0 - d) \div Second)

\* A libdns.Record value.  kind "RR" is a record type of libdns itself, which
\* carries no identifier; kind "DNS" is this package's DNS struct.
MkRR(rr) == [kind |-> "RR", Record |-> rr, ID |-> <<>>]

MkDNS(rr, id) == [kind |-> "DNS", Record |-> rr, ID |-> id]

fromRecord(record, id) == MkDNS(record.Record, id)

recordToGoDo(record) ==
    [Name |-> record.Record.Name,
     Data |-> record.Record.Data,
     Type |-> record.Record.Type,
     TTL  |-> Seconds(record.Record.TTL)]

\* The wire TTL is taken for nanoseconds.
godoToRecord_Nanoseconds(entry) ==
    MkDNS([Name |-> entry.Name,
           Data |-> entry.Data,
           Type |-> entry.Type,
           TTL  |-> entry.TTL],
          Itoa(entry.ID))

\* The provider's ID is left out of the record.
godoToRecord_NoID(entry) ==
    MkDNS([Name |-> entry.Name,
           Data |-> entry.Data,
           Type |-> entry.Type,
           TTL  |-> entry.TTL * Second],
          <<>>)

godoToRecord(entry) ==
    MkDNS([Name |-> entry.Name,
           Data |-> entry.Data,
           Type |-> entry.Type,
           TTL  |-> entry.TTL * Second],
          Itoa(entry.ID))

\* The identifier the mutators recover: record.(DNS) and its ID, else "".
idRaw(record) == IF record.kind = "DNS" THEN record.ID ELSE <<>>

\* ------------------------------------------------------------------ inputs

rrA == [Name |-> "test", Data |-> "192.168.1.1", Type |-> "A", TTL |-> 1500000000]

rrB == [Name |-> "www", Data |-> "example.com", Type |-> "CNAME", TTL |-> 2 * Second]

\* Records callers pass in: without identifier, with an empty one, with the
\* identifier of a record the zone holds, of one it may come to hold, with a
\* signed one and with one that is no number.
InputRecords ==
    { MkRR(rrA),
      MkDNS(rrB, <<>>),
      MkDNS(rrB, <<"1">>),
      MkDNS(rrA, <<"1", "0">>),
      MkDNS(rrB, <<"+", "1">>),
      MkDNS(rrA, <<"x">>) }

SeqsUpTo(S, n) == UNION { [1..k -> S] : k \in 0..n }

Batches == SeqsUpTo(InputRecords, MaxBatch)

\* The batches concurrent callers pass in.
ConcBatches == { <<MkRR(rrA)>>, <<MkDNS(rrB, <<"1">>), MkRR(rrA)>> }

\* The zone the provider holds, and the forms callers name it by.
ProviderZone == <<"e", "x">>

Zones == { ProviderZone, ProviderZone \o <<".">> }

\* The zone's records at the provider before any caller acts.
InitStore ==
    << [ID |-> 1, Name |-> "test", Data |-> "192.168.1.1", Type |-> "A", TTL |-> 1],
       [ID |-> 2, Name |-> "www", Data |-> "example.com", Type |-> "CNAME", TTL |-> 2],
       [ID |-> 3, Name |-> "mail", Data |-> "192.168.1.2", Type |-> "A", TTL |-> 0] >>

\* ------------------------------------------------------------------- state

VARIABLES
    client,   \* Provider.client: nil, or the godo client in use
    mutex,    \* Client.mutex: the caller holding it, or "free"
    store,    \* the zone's records at the provider, in listing order
    nextID,   \* the ID the provider assigns to the next record created
    pc,       \* each caller's position
    op,       \* the facade operation a caller runs
    zone,     \* the zone argument handed to client.go
    input,    \* the records handed to the facade operation
    recno,    \* the index of the batch record being processed
    fn,       \* the client.go function a caller runs
    opt,      \* getDNSEntries: opt.Page
    records,  \* getDNSEntries: the accumulated records
    call,     \* the provider call in flight
    resp,     \* the provider's answer to it
    ret,      \* what the client.go function returned to the facade
    result,   \* the records the facade returns to its caller
    err,      \* the error the facade returns to its caller
    zoneArg,  \* the zone argument handed to the facade operation
    calls,    \* the provider calls issued so far by the running operation
    path      \* the client.go functions the running operation has invoked

vars == <<client, mutex, store, nextID, pc, op, zone, input, recno, fn, opt,
          records, call, resp, ret, result, err, zoneArg, calls, path>>

provider == <<store, nextID>>

\* Provider.client is a pointer: nil, the client a test put in, or the n-th
\* client godo.NewFromToken made for this Provider.
NilClient == [kind |-> "nil", n |-> 0]

Injected == [kind |-> "injected", n |-> 0]

NewFromToken(n) == [kind |-> "token", n |-> n]

NoEntry == [Name |-> "", Data |-> "", Type |-> "", TTL |-> 0]

NoCall == [fn |-> "none", zone |-> <<>>, arg |-> 0, entry |-> NoEntry, recno |-> 0]

NoLinks == [nil |-> TRUE, last |-> FALSE, cur |-> 0, perr |-> FALSE]

NoResp == [err |-> "none", recs |-> <<>>, links |-> NoLinks, id |-> 0]

NoRet == [recs |-> <<>>, err |-> "none"]

Init ==
    /\ client \in {NilClient, Injected}
    /\ mutex = "free"
    /\ store = InitStore
    /\ nextID = FirstID
    /\ pc = [p \in Procs |-> "idle"]
    /\ op = [p \in Procs |-> "none"]
    /\ zone = [p \in Procs |-> <<>>]
    /\ input = [p \in Procs |-> <<>>]
    /\ recno = [p \in Procs |-> 0]
    /\ fn = [p \in Procs |-> "none"]
    /\ opt = [p \in Procs |-> 0]
    /\ records = [p \in Procs |-> <<>>]
    /\ call = [p \in Procs |-> NoCall]
    /\ resp = [p \in Procs |-> NoResp]
    /\ ret = [p \in Procs |-> NoRet]
    /\ result = [p \in Procs |-> <<>>]
    /\ err = [p \in Procs |-> "none"]
    /\ zoneArg = [p \in Procs |-> <<>>]
    /\ calls = [p \in Procs |-> <<>>]
    /\ path = [p \in Procs |-> <<>>]

\* ------------------------------------------------------- client.go: helpers

\* A client is made whether or not there is one.
getClient_Always(c) == NewFromToken(c.n + 1)

\* getClient: construct the godo client from the token when there is none.
getClient(c) == IF c.kind = "nil" THEN NewFromToken(c.n + 1) ELSE c

\* A lock that never waits.
Lock_NoWait(p) == TRUE

\* p.mutex.Lock() returns only once no caller holds the mutex.
Lock(p) == mutex = "free"

\* The godo.DomainRecordEditRequest addDNSEntry and updateDNSEntry build.
EditRequest(record) ==
    [Name |-> record.Record.Name,
     Data |-> record.Record.Data,
     Type |-> record.Record.Type,
     TTL  |-> Seconds(record.Record.TTL)]

\* A provider call leaves the caller: it is in flight until Return takes it.
Issue(p, c) ==
    /\ call' = [call EXCEPT ![p] = c]
    /\ resp' = [resp EXCEPT ![p] = NoResp]
    /\ calls' = [calls EXCEPT ![p] = Append(@, c)]
    /\ pc' = [pc EXCEPT ![p] = "call"]

\* The client.go function returns to the facade with the mutex still held.
Return_KeepsLock(p, recs, e) ==
    /\ mutex' = mutex
    /\ ret' = [ret EXCEPT ![p] = [recs |-> recs, err |-> e]]
    /\ call' = [call EXCEPT ![p] = NoCall]
    /\ resp' = [resp EXCEPT ![p] = NoResp]
    /\ pc' = [pc EXCEPT ![p] = "ret"]

\* The client.go function returns to the facade; the deferred
\* p.mutex.Unlock() runs.
Return(p, recs, e) ==
    /\ mutex' = "free"
    /\ ret' = [ret EXCEPT ![p] = [recs |-> recs, err |-> e]]
    /\ call' = [call EXCEPT ![p] = NoCall]
    /\ resp' = [resp EXCEPT ![p] = NoResp]
    /\ pc' = [pc EXCEPT ![p] = "ret"]

\* The batch record a mutator was handed.
Rec(p) == input[p][recno[p]]

\* ---------------------------------------------------- client.go: the lister

ListCall(p, page) ==
    [fn |-> "Records", zone |-> zone[p], arg |-> page, entry |-> NoEntry, recno |-> 0]

\* A listing that does not wait for the mutex.
getDNSEntries_Lock_NoWait(p) ==
    /\ pc[p] = "lock" /\ fn[p] = "getDNSEntries"
    /\ mutex' = p
    /\ client' = getClient(client)
    /\ opt' = [opt EXCEPT ![p] = 0]
    /\ records' = [records EXCEPT ![p] = <<>>]
    /\ Issue(p, ListCall(p, 0))
    /\ UNCHANGED <<provider, op, zone, input, recno, fn, ret, result, err, zoneArg, path>>

\* getDNSEntries up to its first p.client.Domains.Records call.
getDNSEntries_Lock(p) ==
    /\ pc[p] = "lock" /\ fn[p] = "getDNSEntries"
    /\ Lock(p)
    /\ mutex' = p
    /\ client' = getClient(client)
    /\ opt' = [opt EXCEPT ![p] = 0]
    /\ records' = [records EXCEPT ![p] = <<>>]
    /\ Issue(p, ListCall(p, 0))
    /\ UNCHANGED <<provider, op, zone, input, recno, fn, ret, result, err, zoneArg, path>>

\* Each page's entries put in front of the earlier pages'.
Accumulate_InFront(acc, domains) ==
    [i \in 1..Len(domains) |-> godoToRecord(domains[i])] \o acc

\* The loop over the page's entries: each is converted and appended.
Accumulate(acc, domains) ==
    acc \o [i \in 1..Len(domains) |-> godoToRecord(domains[i])]

\* resp.Links == nil || resp.Links.IsLastPage()
AtLastPage(links) == links.nil \/ links.last

\* The page the response reports is asked for again.
NextPage_Same(links) == links.cur

\* The page asked for next: resp.Links.CurrentPage() plus one.
NextPage(links) == links.cur + 1

\* The records accumulated so far are dropped on a failed call.
ListError_NoRecords(p, e) == Return(p, <<>>, e)

\* The Records call failed: return records, err.
ListError(p, e) == Return(p, records[p], e)

\* The records accumulated so far are dropped on malformed links.
PageError_NoRecords(p, acc) == Return(p, <<>>, "page")

\* resp.Links.CurrentPage() failed: return records, err.
PageError(p, acc) == Return(p, acc, "page")

\* A listing that goes on to the next page when a page request failed.
getDNSEntries_Page_SkipFailed(p) ==
    /\ pc[p] = "resp" /\ fn[p] = "getDNSEntries"
    /\ LET r   == resp[p]
           acc == Accumulate(records[p], r.recs)
       IN  /\ records' = [records EXCEPT ![p] = acc]
           /\ IF r.err = "none" /\ AtLastPage(r.links)
              THEN Return(p, acc, "none") /\ UNCHANGED <<opt, calls>>
              ELSE /\ opt' = [opt EXCEPT ![p] = @ + 1]
                   /\ Issue(p, ListCall(p, opt[p] + 1))
                   /\ UNCHANGED <<mutex, ret>>
    /\ UNCHANGED <<client, provider, op, zone, input, recno, fn, result, err, zoneArg, path>>

\* A listing that gives the mutex up after every page and asks for the next
\* page without it.
getDNSEntries_Page_UnlocksBetween(p) ==
    /\ pc[p] = "resp" /\ fn[p] = "getDNSEntries"
    /\ LET r   == resp[p]
           acc == Accumulate(records[p], r.recs)
       IN  IF r.err # "none"
           THEN /\ ListError(p, r.err)
                /\ UNCHANGED <<records, opt, calls>>
           ELSE /\ records' = [records EXCEPT ![p] = acc]
                /\ IF AtLastPage(r.links)
                   THEN Return(p, acc, "none") /\ UNCHANGED <<opt, calls>>
                   ELSE IF r.links.perr
                   THEN PageError(p, acc) /\ UNCHANGED <<opt, calls>>
                   ELSE /\ opt' = [opt EXCEPT ![p] = NextPage(r.links)]
                        /\ Issue(p, ListCall(p, NextPage(r.links)))
                        /\ mutex' = "free"
                        /\ UNCHANGED ret
    /\ UNCHANGED <<client, provider, op, zone, input, recno, fn, result, err, zoneArg, path>>

\* getDNSEntries from the return of a Records call to the next one, or to
\* its own return.
getDNSEntries_Page(p) ==
    /\ pc[p] = "resp" /\ fn[p] = "getDNSEntries"
    /\ LET r   == resp[p]
           acc == Accumulate(records[p], r.recs)
       IN  IF r.err # "none"
           THEN /\ ListError(p, r.err)
                /\ UNCHANGED <<records, opt, calls>>
           ELSE /\ records' = [records EXCEPT ![p] = acc]
                /\ IF AtLastPage(r.links)
                   THEN Return(p, acc, "none") /\ UNCHANGED <<opt, calls>>
                   ELSE IF r.links.perr
                   THEN PageError(p, acc) /\ UNCHANGED <<opt, calls>>
                   ELSE /\ opt' = [opt EXCEPT ![p] = NextPage(r.links)]
                        /\ Issue(p, ListCall(p, NextPage(r.links)))
                        /\ UNCHANGED <<mutex, ret>>
    /\ UNCHANGED <<client, provider, op, zone, input, recno, fn, result, err, zoneArg, path>>

\* -------------------------------------------------- client.go: the mutators

\* The parse error is not looked at.
ResolveID_Unchecked(record) == [ok |-> TRUE, val |-> Atoi(idRaw(record)).val]

\* The identifier of the record, parsed: strconv.Atoi(idRaw).
ResolveID(record) == Atoi(idRaw(record))

\* The input record's own identifier is kept.
Created_OwnID(record, id) == fromRecord(record, idRaw(record))

\* What addDNSEntry returns for the record the provider created.
Created(record, id) == fromRecord(record, Itoa(id))

addDNSEntry_Lock(p) ==
    /\ pc[p] = "lock" /\ fn[p] = "addDNSEntry"
    /\ Lock(p)
    /\ mutex' = p
    /\ client' = getClient(client)
    /\ Issue(p, [fn |-> "CreateRecord", zone |-> zone[p], arg |-> 0,
                 entry |-> EditRequest(Rec(p)), recno |-> recno[p]])
    /\ UNCHANGED <<provider, op, zone, input, recno, fn, opt, records, ret,
                   result, err, zoneArg, path>>

addDNSEntry_Return(p) ==
    /\ pc[p] = "resp" /\ fn[p] = "addDNSEntry"
    /\ IF resp[p].err # "none"
       THEN Return(p, <<Rec(p)>>, resp[p].err)
       ELSE Return(p, <<Created(Rec(p), resp[p].id)>>, "none")
    /\ UNCHANGED <<client, provider, op, zone, input, recno, fn, opt, records,
                   result, err, zoneArg, calls, path>>

removeDNSEntry_Lock(p) ==
    /\ pc[p] = "lock" /\ fn[p] = "removeDNSEntry"
    /\ Lock(p)
    /\ client' = getClient(client)
    /\ LET id == ResolveID(Rec(p))
       IN  IF ~id.ok
           THEN Return(p, <<Rec(p)>>, "atoi") /\ UNCHANGED calls
           ELSE /\ mutex' = p
                /\ Issue(p, [fn |-> "DeleteRecord", zone |-> zone[p], arg |-> id.val,
                             entry |-> NoEntry, recno |-> recno[p]])
                /\ UNCHANGED ret
    /\ UNCHANGED <<provider, op, zone, input, recno, fn, opt, records, result,
                   err, zoneArg, path>>

\* A delete call that failed is made once more.
removeDNSEntry_Return_Retry(p) ==
    /\ pc[p] = "resp" /\ fn[p] = "removeDNSEntry"
    /\ IF resp[p].err # "none"
          /\ Cardinality({ i \in 1..Len(calls[p]) : calls[p][i].recno = recno[p] }) < 2
       THEN Issue(p, call[p]) /\ UNCHANGED <<mutex, ret>>
       ELSE Return(p, <<Rec(p)>>, resp[p].err) /\ UNCHANGED calls
    /\ UNCHANGED <<client, provider, op, zone, input, recno, fn, opt, records,
                   result, err, zoneArg, path>>

removeDNSEntry_Return(p) ==
    /\ pc[p] = "resp" /\ fn[p] = "removeDNSEntry"
    /\ Return(p, <<Rec(p)>>, resp[p].err)
    /\ UNCHANGED <<client, provider, op, zone, input, recno, fn, opt, records,
                   result, err, zoneArg, calls, path>>

updateDNSEntry_Lock(p) ==
    /\ pc[p] = "lock" /\ fn[p] = "updateDNSEntry"
    /\ Lock(p)
    /\ client' = getClient(client)
    /\ LET id == ResolveID(Rec(p))
       IN  IF ~id.ok
           THEN Return(p, <<Rec(p)>>, "atoi") /\ UNCHANGED calls
           ELSE /\ mutex' = p
                /\ Issue(p, [fn |-> "EditRecord", zone |-> zone[p], arg |-> id.val,
                             entry |-> EditRequest(Rec(p)), recno |-> recno[p]])
                /\ UNCHANGED ret
    /\ UNCHANGED <<provider, op, zone, input, recno, fn, opt, records, result,
                   err, zoneArg, path>>

\* The record comes back with its identifier rendered anew.
updateDNSEntry_Return_Renumbered(p) ==
    /\ pc[p] = "resp" /\ fn[p] = "updateDNSEntry"
    /\ Return(p, <<fromRecord(Rec(p), Itoa(ResolveID(Rec(p)).val))>>, resp[p].err)
    /\ UNCHANGED <<client, provider, op, zone, input, recno, fn, opt, records,
                   result, err, zoneArg, calls, path>>

updateDNSEntry_Return(p) ==
    /\ pc[p] = "resp" /\ fn[p] = "updateDNSEntry"
    /\ Return(p, <<Rec(p)>>, resp[p].err)
    /\ UNCHANGED <<client, provider, op, zone, input, recno, fn, opt, records,
                   result, err, zoneArg, calls, path>>

\* ------------------------------------------------- the DigitalOcean service

Min(a, b) == IF a < b THEN a ELSE b

\* Pages the listing of a zone holding n records has (an empty zone has one).
NumPages(n) == IF n = 0 THEN 1 ELSE (n + PerPage - 1) \div PerPage

\* Page k of the zone's records.
PageOf(s, k) == SubSeq(s, (k - 1) * PerPage + 1, Min(k * PerPage, Len(s)))

ApiError == [NoResp EXCEPT !.err = "api"]

Answer(p, r) ==
    /\ resp' = [resp EXCEPT ![p] = r]
    /\ pc' = [pc EXCEPT ![p] = "resp"]
    /\ UNCHANGED <<client, mutex, op, zone, input, recno, fn, opt, records, call,
                   ret, result, err, zoneArg, calls, path>>

\* The call fails: transport failure, cancellation, or a non-2xx response.
Fail(p) ==
    /\ pc[p] = "call"
    /\ Answer(p, ApiError)
    /\ UNCHANGED provider

\* The caller's context is cancelled while the call is in flight: the godo
\* client gives the call up and returns the context's error.
Cancel(p) ==
    /\ pc[p] = "call"
    /\ Answer(p, [NoResp EXCEPT !.err = "canceled"])
    /\ UNCHANGED provider

\* Domains.Records: one page of the zone; a page option of 0 means page 1.
\* The last page comes with no links or with links that name no last page;
\* any other page comes with links from which the current page is read, or
\* with links that do not parse.
Records(p) ==
    /\ pc[p] = "call" /\ call[p].fn = "Records"
    /\ call[p].zone = ProviderZone
    /\ LET k == IF call[p].arg < 1 THEN 1 ELSE call[p].arg
       IN  \E l \in IF k >= NumPages(Len(store))
                    THEN { NoLinks, [NoLinks EXCEPT !.nil = FALSE, !.last = TRUE] }
                    ELSE { [NoLinks EXCEPT !.nil = FALSE, !.cur = k],
                           [NoLinks EXCEPT !.nil = FALSE, !.perr = TRUE] } :
             Answer(p, [NoResp EXCEPT !.recs = PageOf(store, k), !.links = l])
    /\ UNCHANGED provider

\* Domains.CreateRecord: the record is added under a fresh ID.
CreateRecord(p) ==
    /\ pc[p] = "call" /\ call[p].fn = "CreateRecord"
    /\ call[p].zone = ProviderZone
    /\ nextID < FirstID + MaxCreates
    /\ store' = Append(store, [ID   |-> nextID,
                               Name |-> call[p].entry.Name,
                               Data |-> call[p].entry.Data,
                               Type |-> call[p].entry.Type,
                               TTL  |-> call[p].entry.TTL])
    /\ nextID' = nextID + 1
    /\ Answer(p, [NoResp EXCEPT !.id = nextID])

\* Domains.DeleteRecord: the record of that ID is removed.
DeleteRecord(p) ==
    /\ pc[p] = "call" /\ call[p].fn = "DeleteRecord"
    /\ call[p].zone = ProviderZone
    /\ \E i \in 1..Len(store) :
          /\ store[i].ID = call[p].arg
          /\ store' = SubSeq(store, 1, i - 1) \o SubSeq(store, i + 1, Len(store))
    /\ Answer(p, NoResp)
    /\ UNCHANGED nextID

\* Domains.EditRecord: the record of that ID takes the request's fields.
EditRecord(p) ==
    /\ pc[p] = "call" /\ call[p].fn = "EditRecord"
    /\ call[p].zone = ProviderZone
    /\ \E i \in 1..Len(store) :
          /\ store[i].ID = call[p].arg
          /\ store' = [store EXCEPT ![i] = [ID   |-> call[p].arg,
                                            Name |-> call[p].entry.Name,
                                            Data |-> call[p].entry.Data,
                                            Type |-> call[p].entry.Type,
                                            TTL  |-> call[p].entry.TTL]]
    /\ Answer(p, [NoResp EXCEPT !.id = call[p].arg])
    /\ UNCHANGED nextID

\* ------------------------------------------------------------ the facade

\* The zone name is passed on as given.
unFQDN_AsGiven(z) == z

\* Every trailing dot is removed.
RECURSIVE unFQDN_AllDots(_)
unFQDN_AllDots(z) ==
    IF z # <<>> /\ z[Len(z)] = "." THEN unFQDN_AllDots(SubSeq(z, 1, Len(z) - 1)) ELSE z

\* unFQDN: the zone name without its trailing dot.
unFQDN(z) ==
    IF z # <<>> /\ z[Len(z)] = "." THEN SubSeq(z, 1, Len(z) - 1) ELSE z

\* Whether a record carries a non-empty identifier.
HasID(record) == idRaw(record) # <<>>

\* SetRecords hands every record to updateDNSEntry.
Mutator_AlwaysUpdate(o, record) ==
    CASE o = "append" -> "addDNSEntry"
      [] o = "delete" -> "removeDNSEntry"
      [] o = "set"    -> "updateDNSEntry"

\* The client.go function a batch operation hands a record to.
Mutator(o, record) ==
    CASE o = "append" -> "addDNSEntry"
      [] o = "delete" -> "removeDNSEntry"
      [] o = "set"    -> IF HasID(record) THEN "updateDNSEntry" ELSE "addDNSEntry"

Enter(p, o, z, recs) ==
    /\ pc[p] = "idle"
    /\ op' = [op EXCEPT ![p] = o]
    /\ zoneArg' = [zoneArg EXCEPT ![p] = z]
    /\ zone' = [zone EXCEPT ![p] = unFQDN(z)]
    /\ input' = [input EXCEPT ![p] = recs]
    /\ UNCHANGED <<client, mutex, provider, opt, records, call, resp, ret,
                   result, err, calls>>

\* GetRecords up to its call of getDNSEntries.
GetRecords(p, z) ==
    /\ Enter(p, "get", z, <<>>)
    /\ fn' = [fn EXCEPT ![p] = "getDNSEntries"]
    /\ path' = [path EXCEPT ![p] = <<"getDNSEntries">>]
    /\ pc' = [pc EXCEPT ![p] = "lock"]
    /\ UNCHANGED recno

\* GetRecords from the return of getDNSEntries.
GetRecords_Return(p) ==
    /\ pc[p] = "ret" /\ op[p] = "get"
    /\ result' = [result EXCEPT ![p] = ret[p].recs]
    /\ err' = [err EXCEPT ![p] = ret[p].err]
    /\ pc' = [pc EXCEPT ![p] = "done"]
    /\ UNCHANGED <<client, mutex, provider, op, zone, input, recno, fn, opt,
                   records, call, resp, ret, zoneArg, calls, path>>

Batch(p, o, z, recs) ==
    /\ Enter(p, o, z, recs)
    /\ recno' = [recno EXCEPT ![p] = 1]
    /\ pc' = [pc EXCEPT ![p] = "facade"]
    /\ UNCHANGED <<fn, path>>

AppendRecords(p, z, recs) == Batch(p, "append", z, recs)

DeleteRecords(p, z, recs) == Batch(p, "delete", z, recs)

SetRecords(p, z, recs) == Batch(p, "set", z, recs)

\* The head of a batch operation's loop: hand the next record to its
\* mutator, or return when none is left.
Batch_Next(p) ==
    /\ pc[p] = "facade"
    /\ IF recno[p] > Len(input[p])
       THEN /\ pc' = [pc EXCEPT ![p] = "done"]
            /\ UNCHANGED <<fn, path>>
       ELSE /\ fn' = [fn EXCEPT ![p] = Mutator(op[p], Rec(p))]
            /\ path' = [path EXCEPT ![p] = Append(@, Mutator(op[p], Rec(p)))]
            /\ pc' = [pc EXCEPT ![p] = "lock"]
    /\ UNCHANGED <<client, mutex, provider, op, zone, input, recno, opt, records,
                   call, resp, ret, result, err, zoneArg, calls>>

\* On a record's error the batch returns no records at all.
Batch_Return_AllOrNothing(p) ==
    /\ pc[p] = "ret" /\ op[p] # "get"
    /\ IF ret[p].err # "none"
       THEN /\ err' = [err EXCEPT ![p] = ret[p].err]
            /\ result' = [result EXCEPT ![p] = <<>>]
            /\ pc' = [pc EXCEPT ![p] = "done"]
            /\ UNCHANGED recno
       ELSE /\ result' = [result EXCEPT ![p] = Append(@, ret[p].recs[1])]
            /\ recno' = [recno EXCEPT ![p] = @ + 1]
            /\ pc' = [pc EXCEPT ![p] = "facade"]
            /\ UNCHANGED err
    /\ UNCHANGED <<client, mutex, provider, op, zone, input, fn, opt, records,
                   call, resp, ret, zoneArg, calls, path>>

\* The body of the loop after the mutator returned: stop at its error, or
\* collect its record and go on.
Batch_Return(p) ==
    /\ pc[p] = "ret" /\ op[p] # "get"
    /\ IF ret[p].err # "none"
       THEN /\ err' = [err EXCEPT ![p] = ret[p].err]
            /\ pc' = [pc EXCEPT ![p] = "done"]
            /\ UNCHANGED <<result, recno>>
       ELSE /\ result' = [result EXCEPT ![p] = Append(@, ret[p].recs[1])]
            /\ recno' = [recno EXCEPT ![p] = @ + 1]
            /\ pc' = [pc EXCEPT ![p] = "facade"]
            /\ UNCHANGED err
    /\ UNCHANGED <<client, mutex, provider, op, zone, input, fn, opt, records,
                   call, resp, ret, zoneArg, calls, path>>

\* The caller has taken the operation's result and may start another one.
Finish(p) ==
    /\ pc[p] = "done"
    /\ pc' = [pc EXCEPT ![p] = "idle"]
    /\ op' = [op EXCEPT ![p] = "none"]
    /\ zone' = [zone EXCEPT ![p] = <<>>]
    /\ zoneArg' = [zoneArg EXCEPT ![p] = <<>>]
    /\ input' = [input EXCEPT ![p] = <<>>]
    /\ recno' = [recno EXCEPT ![p] = 0]
    /\ fn' = [fn EXCEPT ![p] = "none"]
    /\ opt' = [opt EXCEPT ![p] = 0]
    /\ records' = [records EXCEPT ![p] = <<>>]
    /\ ret' = [ret EXCEPT ![p] = NoRet]
    /\ result' = [result EXCEPT ![p] = <<>>]
    /\ err' = [err EXCEPT ![p] = "none"]
    /\ calls' = [calls EXCEPT ![p] = <<>>]
    /\ path' = [path EXCEPT ![p] = <<>>]
    /\ UNCHANGED <<client, mutex, provider, call, resp>>

\* ------------------------------------------------------- specifications

Step(p) ==
    \/ getDNSEntries_Lock(p)
    \/ getDNSEntries_Page(p)
    \/ addDNSEntry_Lock(p)
    \/ addDNSEntry_Return(p)
    \/ removeDNSEntry_Lock(p)
    \/ removeDNSEntry_Return(p)
    \/ updateDNSEntry_Lock(p)
    \/ updateDNSEntry_Return(p)
    \/ Fail(p)
    \/ Records(p)
    \/ CreateRecord(p)
    \/ DeleteRecord(p)
    \/ EditRecord(p)
    \/ GetRecords_Return(p)
    \/ Batch_Next(p)
    \/ Batch_Return(p)
    \/ Finish(p)

Invoke(p, Z, B) ==
    /\ pc[p] = "idle"
    /\ \E z \in Z :
          \/ GetRecords(p, z)
          \/ \E recs \in B :
                \/ AppendRecords(p, z, recs)
                \/ DeleteRecords(p, z, recs)
                \/ SetRecords(p, z, recs)

\* One caller at a time, with every batch.
NextSeq == Step("c1") \/ Invoke("c1", Zones, Batches)

SpecSeq == Init /\ [][NextSeq]_vars

\* Concurrent callers.
Next == \E p \in Procs : Step(p) \/ Invoke(p, {ProviderZone}, ConcBatches)

Spec == Init /\ [][Next]_vars

\* Concurrent callers under fair scheduling.  A caller that waits for the
\* mutex gets it if it is free again and again (sync.Mutex hands the mutex to
\* a waiter that has waited long); a caller that can take a step of its own
\* takes it; a provider call in flight is answered.  Nothing obliges a caller
\* to start an operation.
FairBatches == { <<MkDNS(rrB, <<"1">>), MkRR(rrA)>> }

InitFair == Init /\ client = NilClient

\* A caller lists, deletes or sets; SetRecords of the batch goes through
\* updateDNSEntry for its first record and addDNSEntry for its second.
InvokeFair(p) ==
    /\ pc[p] = "idle"
    /\ \/ GetRecords(p, ProviderZone)
       \/ \E recs \in FairBatches :
             \/ DeleteRecords(p, ProviderZone, recs)
             \/ SetRecords(p, ProviderZone, recs)

Acquire(p) ==
    \/ getDNSEntries_Lock(p)
    \/ addDNSEntry_Lock(p)
    \/ removeDNSEntry_Lock(p)
    \/ updateDNSEntry_Lock(p)

Proceed(p) ==
    \/ getDNSEntries_Page(p)
    \/ addDNSEntry_Return(p)
    \/ removeDNSEntry_Return(p)
    \/ updateDNSEntry_Return(p)
    \/ GetRecords_Return(p)
    \/ Batch_Next(p)
    \/ Batch_Return(p)

Answered(p) ==
    \/ Fail(p)
    \/ Records(p)
    \/ CreateRecord(p)
    \/ DeleteRecord(p)
    \/ EditRecord(p)

NextFair ==
    \E p \in Procs :
        \/ Acquire(p)
        \/ Proceed(p)
        \/ Answered(p)
        \/ Finish(p)
        \/ InvokeFair(p)

Fairness ==
    \A p \in Procs :
        /\ SF_vars(Acquire(p))
        /\ WF_vars(Proceed(p))
        /\ WF_vars(Answered(p))

SpecFair == InitFair /\ [][NextFair]_vars /\ Fairness

\* One caller whose context may be cancelled during any provider call.
NextCancel ==
    Step("c1") \/ Cancel("c1") \/ Invoke("c1", {ProviderZone}, Batches)

SpecCancel == Init /\ [][NextCancel]_vars

\* The caller hands records it got from GetRecords, or from an AppendRecords
\* that succeeded, to DeleteRecords or SetRecords: any of them, in any order,
\* up to MaxBatch at a time.
Reuse(p) ==
    /\ pc[p] = "done"
    /\ op[p] = "get" \/ (op[p] = "append" /\ err[p] = "none")
    /\ \E o \in {"delete", "set"} :
       \E idx \in SeqsUpTo(1..Len(result[p]), MaxBatch) \ {<<>>} :
          /\ op' = [op EXCEPT ![p] = o]
          /\ input' = [input EXCEPT ![p] = [i \in 1..Len(idx) |-> result[p][idx[i]]]]
    /\ zone' = [zone EXCEPT ![p] = unFQDN(zoneArg[p])]
    /\ recno' = [recno EXCEPT ![p] = 1]
    /\ pc' = [pc EXCEPT ![p] = "facade"]
    /\ fn' = [fn EXCEPT ![p] = "none"]
    /\ opt' = [opt EXCEPT ![p] = 0]
    /\ records' = [records EXCEPT ![p] = <<>>]
    /\ ret' = [ret EXCEPT ![p] = NoRet]
    /\ result' = [result EXCEPT ![p] = <<>>]
    /\ err' = [err EXCEPT ![p] = "none"]
    /\ calls' = [calls EXCEPT ![p] = <<>>]
    /\ path' = [path EXCEPT ![p] = <<>>]
    /\ UNCHANGED <<client, mutex, provider, call, resp, zoneArg>>

\* One caller that lists and appends, and deletes and sets nothing but
\* records it was handed back.
InvokeChain(p) ==
    /\ pc[p] = "idle"
    /\ \/ GetRecords(p, ProviderZone)
       \/ \E recs \in ConcBatches : AppendRecords(p, ProviderZone, recs)

NextChain == Step("c1") \/ InvokeChain("c1") \/ Reuse("c1")

SpecChain == Init /\ [][NextChain]_vars

\* unFQDN on its own, applied to every zone name of up to MaxZoneLen
\* characters, dots included.
ZoneNames == SeqsUpTo({"e", "x", "."}, MaxZoneLen)

InitFQDN ==
    /\ client = NilClient
    /\ mutex = "free"
    /\ store = InitStore
    /\ nextID = FirstID
    /\ pc = [p \in Procs |-> "idle"]
    /\ op = [p \in Procs |-> "none"]
    /\ zone = [p \in Procs |-> <<>>]
    /\ input = [p \in Procs |-> <<>>]
    /\ recno = [p \in Procs |-> 0]
    /\ fn = [p \in Procs |-> "none"]
    /\ opt = [p \in Procs |-> 0]
    /\ records = [p \in Procs |-> <<>>]
    /\ call = [p \in Procs |-> NoCall]
    /\ resp = [p \in Procs |-> NoResp]
    /\ ret = [p \in Procs |-> NoRet]
    /\ result = [p \in Procs |-> <<>>]
    /\ err = [p \in Procs |-> "none"]
    /\ zoneArg \in [Procs -> ZoneNames]
    /\ zoneArg["c2"] = <<>>
    /\ calls = [p \in Procs |-> <<>>]
    /\ path = [p \in Procs |-> <<>>]

unFQDN_Apply ==
    /\ pc["c1"] = "idle"
    /\ zone' = [zone EXCEPT !["c1"] = unFQDN(zoneArg["c1"])]
    /\ pc' = [pc EXCEPT !["c1"] = "done"]
    /\ UNCHANGED <<client, mutex, provider, op, input, recno, fn, opt, records,
                   call, resp, ret, result, err, zoneArg, calls, path>>

NextFQDN == unFQDN_Apply

SpecFQDN == InitFQDN /\ [][NextFQDN]_vars

\* The translator on its own: godoToRecord applied to a wire record, and
\* recordToGoDo applied to a caller's record or to what godoToRecord gave.
WireIDs == {0 - 5, 0, 7, 10, 123}

WireTTLs == {0 - 1, 0, 1, 2}

WireEntries ==
    { [ID |-> i, Name |-> rr.Name, Data |-> rr.Data, Type |-> rr.Type, TTL |-> t] :
          i \in WireIDs, t \in WireTTLs, rr \in {rrA, rrB} }

\* Durations that are whole seconds, that have a sub-second remainder, and
\* that are less than a second.
Durations ==
    { 0, 1, 500000000, 999999999, Second, 1500000000, 2 * Second, 2147483647,
      0 - 1, 0 - 999999999, 0 - 1500000000 }

InitTranslate ==
    /\ client = NilClient
    /\ mutex = "free"
    /\ store = InitStore
    /\ nextID = FirstID
    /\ pc = [p \in Procs |-> "idle"]
    /\ op = [p \in Procs |-> "none"]
    /\ zone = [p \in Procs |-> <<>>]
    /\ \E d \in Durations :
          input = [p \in Procs |->
                     IF p = "c1" THEN <<MkRR([rrA EXCEPT !.TTL = d])>> ELSE <<>>]
    /\ recno = [p \in Procs |-> 0]
    /\ fn = [p \in Procs |-> "none"]
    /\ opt = [p \in Procs |-> 0]
    /\ records = [p \in Procs |-> <<>>]
    /\ call = [p \in Procs |-> NoCall]
    /\ \E w \in WireEntries :
          resp = [p \in Procs |->
                    IF p = "c1" THEN [NoResp EXCEPT !.recs = <<w>>] ELSE NoResp]
    /\ ret = [p \in Procs |-> NoRet]
    /\ result = [p \in Procs |-> <<>>]
    /\ err = [p \in Procs |-> "none"]
    /\ zoneArg = [p \in Procs |-> <<>>]
    /\ calls = [p \in Procs |-> <<>>]
    /\ path = [p \in Procs |-> <<>>]

\* godoToRecord applied to the wire record.
godoToRecord_Apply ==
    /\ pc["c1"] = "idle"
    /\ records' = [records EXCEPT !["c1"] = <<godoToRecord(resp["c1"].recs[1])>>]
    /\ pc' = [pc EXCEPT !["c1"] = "ret"]
    /\ UNCHANGED <<client, mutex, provider, op, zone, input, recno, fn, opt,
                   call, resp, ret, result, err, zoneArg, calls, path>>

\* recordToGoDo applied to the caller's record, or to the record godoToRecord
\* gave.
recordToGoDo_Apply ==
    /\ \/ /\ pc["c1"] = "idle"
          /\ call' = [call EXCEPT !["c1"].entry = recordToGoDo(input["c1"][1])]
          /\ pc' = [pc EXCEPT !["c1"] = "call"]
       \/ /\ pc["c1"] = "ret"
          /\ call' = [call EXCEPT !["c1"].entry = recordToGoDo(records["c1"][1])]
          /\ pc' = [pc EXCEPT !["c1"] = "done"]
    /\ UNCHANGED <<client, mutex, provider, op, zone, input, recno, fn, opt,
                   records, resp, ret, result, err, zoneArg, calls, path>>

NextTranslate == godoToRecord_Apply \/ recordToGoDo_Apply

SpecTranslate == InitTranslate /\ [][NextTranslate]_vars

\* ------------------------------------------------------------------ claims

\* A provider call of caller p has been issued and has not yet returned to
\* the client.go function that made it.
InFlight(p) == pc[p] \in {"call", "resp"}

\* The records of pages 1..n of the zone, page after page.
RECURSIVE ConcatPages(_, _)
ConcatPages(s, n) ==
    IF n = 0 THEN <<>> ELSE ConcatPages(s, n - 1) \o PageOf(s, n)

\* What a listing of wire records s looks like to the caller.
Translated(s) == [i \in 1..Len(s) |-> godoToRecord(s[i])]

\* C1: for one Provider value at most one provider call (list page, create,
\* update or delete) is in flight at any time, however the callers of
\* GetRecords, AppendRecords, DeleteRecords and SetRecords interleave.
C1_OneCallInFlight ==
    \A p, q \in Procs : InFlight(p) /\ InFlight(q) => p = q

\* A call is in flight while another caller waits for the mutex.
C1_Witness ==
    \E p, q \in Procs : p # q /\ pc[p] = "call" /\ pc[q] = "lock"

\* The lister of caller p has just returned to the facade.
ListerReturned(p) == pc[p] = "ret" /\ fn[p] = "getDNSEntries"

\* C2: when the provider holds N pages for the zone and only page N comes
\* with the last-page indicator (or with no links), a listing that returns
\* without error has issued exactly N list calls, for pages 1..N in that
\* order, and returns the records of pages 1..N concatenated in page order,
\* each page's records in response order.
C2_PaginationComplete ==
    \A p \in Procs :
        ListerReturned(p) /\ ret[p].err = "none" =>
            LET N == NumPages(Len(store))
            IN  /\ Len(calls[p]) = N
                /\ \A k \in 1..N :
                      /\ calls[p][k].fn = "Records"
                      /\ calls[p][k].arg = (IF k = 1 THEN 0 ELSE k)
                /\ ret[p].recs = Translated(ConcatPages(store, N))

\* A listing of three pages has returned without error.
C2_Witness ==
    \E p \in Procs :
        /\ ListerReturned(p) /\ ret[p].err = "none"
        /\ NumPages(Len(store)) = 3
        /\ Len(ret[p].recs) = Len(store)

\* An identifier that is absent, empty or not an integer: no digits at all,
\* or a character that is neither a digit nor a leading sign.
Unresolvable(record) ==
    \/ record.kind # "DNS"
    \/ record.ID = <<>>
    \/ record.ID \in { <<"+">>, <<"-">> }
    \/ \E i \in 1..Len(record.ID) :
          /\ ~IsDigit(record.ID[i])
          /\ ~(i = 1 /\ record.ID[1] \in {"+", "-"})

\* The provider calls the running operation of p issued for its record k.
CallsFor(p, k) == { i \in 1..Len(calls[p]) : calls[p][i].recno = k }

\* C3: update and delete of a record whose identifier is absent, empty or
\* not parseable as an integer return an error and issue no provider call
\* for that record; in a DeleteRecords batch no record after it is
\* processed either.
C3_IdentifierGating ==
    \A p \in Procs :
        /\ \A i \in 1..Len(calls[p]) :
              calls[p][i].fn \in {"DeleteRecord", "EditRecord"} =>
                  ~Unresolvable(input[p][calls[p][i].recno])
        /\ ( /\ pc[p] = "ret"
             /\ fn[p] \in {"removeDNSEntry", "updateDNSEntry"}
             /\ Unresolvable(Rec(p)) ) =>
                  /\ ret[p].err # "none"
                  /\ CallsFor(p, recno[p]) = {}
        /\ op[p] = "delete" =>
              \A k \in 1..Len(input[p]) :
                  Unresolvable(input[p][k]) =>
                      /\ \A j \in k..Len(input[p]) : CallsFor(p, j) = {}
                      /\ Len(result[p]) < k
                      /\ pc[p] = "done" => err[p] # "none"

\* A DeleteRecords batch of two has ended at its second record, whose
\* identifier does not resolve, after deleting the first.
C3_Witness ==
    \E p \in Procs :
        /\ pc[p] = "done" /\ op[p] = "delete" /\ Len(input[p]) = 2
        /\ ~Unresolvable(input[p][1]) /\ Unresolvable(input[p][2])
        /\ Len(result[p]) = 1 /\ Len(calls[p]) = 1 /\ err[p] = "atoi"

\* Whether the record carries a non-empty identifier.
Identified(record) == record.kind = "DNS" /\ record.ID # <<>>

\* C4: SetRecords hands every input record with a non-empty identifier to
\* the update path and every record with an empty or absent identifier to
\* the create path: no update call is made for a record without identifier
\* and no create call for an identified one.
C4_SetDispatch ==
    \A p \in Procs :
        op[p] = "set" =>
            /\ \A i \in 1..Len(path[p]) :
                  path[p][i] = (IF Identified(input[p][i])
                                THEN "updateDNSEntry" ELSE "addDNSEntry")
            /\ \A i \in 1..Len(calls[p]) :
                  LET c == calls[p][i]
                  IN  /\ c.fn \in {"EditRecord", "CreateRecord"}
                      /\ c.fn = "EditRecord" <=> Identified(input[p][c.recno])

\* SetRecords of an identified record and one without identifier has
\* returned after one update call and one create call.
C4_Witness ==
    \E p \in Procs :
        /\ pc[p] = "done" /\ op[p] = "set" /\ err[p] = "none"
        /\ Len(input[p]) = 2
        /\ Identified(input[p][1]) /\ ~Identified(input[p][2])
        /\ Len(calls[p]) = 2
        /\ calls[p][1].fn = "EditRecord" /\ calls[p][2].fn = "CreateRecord"

\* C5: AppendRecords, DeleteRecords and SetRecords process their records in
\* input order and, when the k-th record fails, return the error together
\* with exactly the results of records 1..k-1 in input order: not an empty
\* result, and no result for a later record.
C5_PartialResults ==
    \A p \in Procs :
        pc[p] = "done" /\ op[p] \in {"append", "delete", "set"} =>
            /\ \A i \in 1..Len(result[p]) :
                  /\ result[p][i].Record = input[p][i].Record
                  /\ path[p][i] # "addDNSEntry" => result[p][i] = input[p][i]
            /\ IF err[p] = "none"
               THEN Len(result[p]) = Len(input[p])
               ELSE /\ recno[p] \in 1..Len(input[p])
                    /\ ret[p] = [recs |-> <<input[p][recno[p]]>>, err |-> err[p]]
                    /\ Len(result[p]) = recno[p] - 1
                    /\ Len(path[p]) = recno[p]

\* A batch of two has failed at its second record and returns the result
\* of its first.
C5_Witness ==
    \E p \in Procs :
        /\ pc[p] = "done" /\ err[p] = "api" /\ recno[p] = 2
        /\ Len(result[p]) = 1

\* The shortest decimal rendering of a number that is not negative.
CanonicalDecimal(s, n) ==
    /\ s # <<>>
    /\ \A i \in 1..Len(s) : IsDigit(s[i])
    /\ Len(s) > 1 => s[1] # "0"
    /\ DecimalValue(s) = n

\* C6: a successful create returns a record with the input record's Name,
\* Type, Data and TTL whose identifier is the decimal string of the ID the
\* provider assigned in that create call, and so does AppendRecords for
\* each of its records.
C6_CreateAssignsID ==
    /\ \A p \in Procs :
          ( pc[p] = "ret" /\ fn[p] = "addDNSEntry" /\ ret[p].err = "none" ) =>
              /\ ret[p].recs[1].kind = "DNS"
              /\ ret[p].recs[1].Record = Rec(p).Record
              /\ CanonicalDecimal(ret[p].recs[1].ID, nextID - 1)
              /\ store[Len(store)].ID = nextID - 1
    /\ \A p \in Procs :
          ( pc[p] = "done" /\ op[p] = "append" ) =>
              \A i \in 1..Len(result[p]) :
                  /\ result[p][i].Record = input[p][i].Record
                  /\ CanonicalDecimal(result[p][i].ID,
                                      nextID - Len(result[p]) + i - 1)

\* AppendRecords of a record without identifier and of one with an
\* identifier of its own has returned two records.
C6_Witness ==
    \E p \in Procs :
        /\ pc[p] = "done" /\ op[p] = "append" /\ err[p] = "none"
        /\ Len(input[p]) = 2
        /\ input[p][1].kind = "RR" /\ Identified(input[p][2])
        /\ Len(result[p]) = 2
        /\ result[p][2].ID # input[p][2].ID

\* C7: after any sequence of successful create, update and delete
\* operations, a listing that returns without error returns exactly the
\* records the provider holds for the zone at that moment, and GetRecords
\* hands that listing to its caller: nothing an earlier call left behind
\* makes it stale.
C7_ListingIsCurrent ==
    [][ \A p \in Procs :
          /\ ( /\ pc[p] = "resp" /\ fn[p] = "getDNSEntries"
               /\ pc'[p] = "ret" /\ ret'[p].err = "none" ) =>
                  ret'[p].recs = Translated(store')
          /\ ( /\ pc[p] = "ret" /\ op[p] = "get"
               /\ pc'[p] = "done" /\ ret[p].err = "none" ) =>
                  /\ result'[p] = ret[p].recs
                  /\ err'[p] = "none" ]_vars

\* A listing returns the zone's records after a record was created and
\* another one deleted.
C7_Witness ==
    \E p \in Procs :
        /\ ListerReturned(p) /\ ret[p].err = "none"
        /\ ret[p].recs = Translated(store)
        /\ nextID > FirstID
        /\ \E i \in 1..Len(store) : store[i].ID = FirstID
        /\ ~ \E i \in 1..Len(store) : store[i].ID = InitStore[1].ID

\* The answer to the Records call of p's listing is an error.
ListCallFailed(p) ==
    pc[p] = "resp" /\ fn[p] = "getDNSEntries" /\ resp[p].err # "none"

\* C8: if the list call for any page returns an error, the lister issues no
\* further list call and returns that error together with the records
\* accumulated from the pages already fetched.
C8_ListErrorAborts ==
    [][ \A p \in Procs :
          ListCallFailed(p) =>
              /\ records[p] = Translated(ConcatPages(store, Len(calls[p]) - 1))
              /\ pc'[p] # pc[p] =>
                    /\ pc'[p] = "ret"
                    /\ calls'[p] = calls[p]
                    /\ ret'[p] = [recs |-> records[p], err |-> resp[p].err] ]_vars

\* The call for the second page failed and the lister returned the first
\* page's records with the error.
C8_Witness ==
    \E p \in Procs :
        /\ ListerReturned(p) /\ ret[p].err = "api"
        /\ Len(calls[p]) = 2
        /\ ret[p].recs = Translated(PageOf(store, 1))

\* The page that answered p's list call has links that are not the last
\* page's and from which the current page cannot be read.
LinksMalformed(p) ==
    /\ pc[p] = "resp" /\ fn[p] = "getDNSEntries" /\ resp[p].err = "none"
    /\ ~resp[p].links.nil /\ ~resp[p].links.last /\ resp[p].links.perr

\* C9 as stated: when a page's pagination metadata is malformed the listing
\* ends with an error, no further page is requested, and the caller of the
\* listing receives the error with the accumulated records discarded.
C9_AsStated ==
    [][ \A p \in Procs :
          LinksMalformed(p) /\ pc'[p] # pc[p] =>
              /\ pc'[p] = "ret"
              /\ calls'[p] = calls[p]
              /\ ret'[p] = [recs |-> <<>>, err |-> "page"] ]_vars

\* C9, amended: when a page's pagination metadata is malformed the listing
\* ends with an error and no further page is requested; getDNSEntries
\* returns the error together with the records accumulated so far, those
\* of the page with the malformed metadata included.
C9_PageErrorKeepsRecords ==
    [][ \A p \in Procs :
          LinksMalformed(p) /\ pc'[p] # pc[p] =>
              /\ pc'[p] = "ret"
              /\ calls'[p] = calls[p]
              /\ ret'[p] = [recs |-> Translated(ConcatPages(store, Len(calls[p]))),
                            err  |-> "page"] ]_vars

\* The second page came with malformed links and the lister returned both
\* pages' records with the error.
C9_Witness ==
    \E p \in Procs :
        /\ ListerReturned(p) /\ ret[p].err = "page"
        /\ Len(calls[p]) = 2
        /\ Len(ret[p].recs) = 2 * PerPage

\* The zone names without a trailing dot among those callers use.
BareZones == { z \in Zones : z[Len(z)] # "." }

\* C10: for every zone z without a trailing dot, GetRecords, AppendRecords,
\* DeleteRecords and SetRecords called with z or with z followed by "."
\* work on the bare zone z: client.go is handed z and every provider call
\* is addressed to z, so both forms issue the same calls and return the
\* same result.
C10_ZoneForms ==
    \A p \in Procs : \A z \in BareZones :
        ( op[p] # "none" /\ zoneArg[p] \in { z, z \o <<".">> } ) =>
            /\ zone[p] = z
            /\ \A i \in 1..Len(calls[p]) : calls[p][i].zone = z

\* An operation called with the dotted form has returned without error
\* after two provider calls.
C10_Witness ==
    \E p \in Procs : \E z \in BareZones :
        /\ pc[p] = "done" /\ err[p] = "none"
        /\ zoneArg[p] = z \o <<".">>
        /\ Len(calls[p]) = 2
        /\ calls[p][2].zone = z

\* C11: unFQDN is total; a zone name that ends with "." comes back without
\* that one dot, so that putting the dot back gives the name handed in, and
\* any other name comes back as it is; "ex." and "ex" both give "ex".
C11_unFQDN ==
    pc["c1"] = "done" /\ op["c1"] = "none" =>
        LET z == zoneArg["c1"]
            u == zone["c1"]
        IN  /\ IF z # <<>> /\ z[Len(z)] = "."
               THEN u \o <<".">> = z
               ELSE u = z
            /\ z \in {<<"e", "x", ".">>, <<"e", "x">>} => u = <<"e", "x">>

\* unFQDN was handed a name that ends with two dots and took one away.
C11_Witness ==
    /\ pc["c1"] = "done" /\ op["c1"] = "none"
    /\ zoneArg["c1"] = <<"e", "x", ".", ".">>
    /\ zone["c1"] = <<"e", "x", ".">>

\* C12: a wire record taken through godoToRecord and then recordToGoDo gives
\* an edit request with the wire record's Name, Type, Data and TTL seconds.
C12_RoundTrip ==
    pc["c1"] = "done" /\ op["c1"] = "none" /\ records["c1"] # <<>> =>
        LET w == resp["c1"].recs[1]
            e == call["c1"].entry
        IN  /\ e.Name = w.Name
            /\ e.Type = w.Type
            /\ e.Data = w.Data
            /\ e.TTL = w.TTL

\* A wire record with a two-second TTL went through both translations.
C12_Witness ==
    /\ pc["c1"] = "done" /\ op["c1"] = "none" /\ records["c1"] # <<>>
    /\ resp["c1"].recs[1].TTL = 2 /\ resp["c1"].recs[1].ID = 123
    /\ records["c1"][1].Record.TTL = 2 * Second
    /\ call["c1"].entry.TTL = 2

\* t whole seconds are the duration d with its sub-second remainder cut off.
Truncated(d, t) ==
    IF d >= 0
    THEN t >= 0 /\ d - t * Second \in 0..(Second - 1)
    ELSE t <= 0 /\ t * Second - d \in 0..(Second - 1)

\* C18: recordToGoDo, and the request addDNSEntry and updateDNSEntry build,
\* carry the record's TTL in whole seconds with the sub-second remainder cut
\* off, so that a TTL below one second becomes 0; godoToRecord turns a wire
\* TTL of s seconds into a duration of exactly s seconds.
C18_TTLConversion ==
    /\ pc["c1"] = "call" /\ op["c1"] = "none" =>
          LET d == input["c1"][1].Record.TTL
              t == call["c1"].entry.TTL
          IN  /\ Truncated(d, t)
              /\ (d < Second /\ 0 - d < Second) => t = 0
              /\ EditRequest(input["c1"][1]).TTL = t
    /\ pc["c1"] = "ret" /\ op["c1"] = "none" =>
          LET s == resp["c1"].recs[1].TTL
              d == records["c1"][1].Record.TTL
          IN  /\ d % Second = 0
              /\ Truncated(d, s)

\* A TTL of a second and a half went out as one second.
C18_Witness ==
    /\ pc["c1"] = "call" /\ op["c1"] = "none"
    /\ input["c1"][1].Record.TTL = 1500000000
    /\ call["c1"].entry.TTL = 1

\* C13: every record GetRecords returns, and every record an AppendRecords
\* that succeeded returns, carries as identifier the decimal rendering of
\* the ID the provider holds that record under; handed on to DeleteRecords
\* or SetRecords, it resolves, takes the delete or the update path, and the
\* call issued for it is keyed by the number its identifier renders.
C13_ReturnedIDsRoundTrip ==
    LET p == "c1"
    IN  /\ ( pc[p] = "done" /\ (op[p] = "get" \/ (op[p] = "append" /\ err[p] = "none")) ) =>
              \A i \in 1..Len(result[p]) :
                  /\ result[p][i].kind = "DNS"
                  /\ \E j \in 1..Len(store) :
                        /\ CanonicalDecimal(result[p][i].ID, store[j].ID)
                        /\ result[p][i].Record.Name = store[j].Name
        /\ op[p] \in {"delete", "set"} =>
              /\ err[p] # "atoi" /\ ret[p].err # "atoi"
              /\ \A i \in 1..Len(path[p]) :
                    path[p][i] = IF op[p] = "delete" THEN "removeDNSEntry"
                                 ELSE "updateDNSEntry"
              /\ \A i \in 1..Len(calls[p]) :
                    /\ calls[p][i].fn = IF op[p] = "delete" THEN "DeleteRecord"
                                        ELSE "EditRecord"
                    /\ CanonicalDecimal(input[p][calls[p][i].recno].ID,
                                        calls[p][i].arg)

\* A record that AppendRecords returned was handed to DeleteRecords, and the
\* provider deleted the record it had created under that ID.
C13_Witness ==
    /\ pc["c1"] = "done" /\ op["c1"] = "delete" /\ err["c1"] = "none"
    /\ Len(calls["c1"]) = 1
    /\ calls["c1"][1].fn = "DeleteRecord" /\ calls["c1"][1].arg = FirstID
    /\ input["c1"][1].ID = Itoa(FirstID)
    /\ nextID > FirstID
    /\ \A j \in 1..Len(store) : store[j].ID # FirstID

\* C14: the godo client is made at most once for a Provider: the first
\* operation to pass the lock makes it when there is none, and once there
\* is one, made or put in, no step of any caller replaces it.
C14_ClientOnce ==
    [][ /\ client.kind # "nil" => client' = client
        /\ client.kind = "nil" =>
              IF \E p \in Procs : pc[p] = "lock" /\ pc'[p] # "lock"
              THEN client' = NewFromToken(1)
              ELSE client' = client ]_vars

\* Both callers have been through getClient, and the client in use is the
\* first and only one made.
C14_Witness ==
    /\ client = NewFromToken(1)
    /\ pc["c1"] = "call" /\ path["c1"] # <<>>
    /\ pc["c2"] = "done" /\ Len(calls["c2"]) > 1

\* C15: when the caller's context is cancelled during a provider call, the
\* call comes back with the cancellation error, the client.go function that
\* made it returns that error without issuing another call, and so does the
\* operation: no next page is requested and no next record of the batch is
\* processed.
C15_CancellationAborts ==
    [][ LET p == "c1"
        IN  /\ ( pc[p] = "resp" /\ resp[p].err = "canceled" ) =>
                  /\ pc'[p] = "ret"
                  /\ ret'[p].err = "canceled"
                  /\ calls'[p] = calls[p]
            /\ ( pc[p] = "ret" /\ ret[p].err = "canceled" ) =>
                  /\ pc'[p] = "done"
                  /\ err'[p] = "canceled"
                  /\ calls'[p] = calls[p]
                  /\ recno'[p] = recno[p]
            /\ ( pc[p] = "done" /\ err[p] = "canceled" ) =>
                  /\ pc'[p] = "idle"
                  /\ calls[p][Len(calls[p])].recno = recno[p]
                  /\ calls[p][Len(calls[p])].arg = opt[p] \/ op[p] # "get" ]_vars

\* The second page request of a listing was cancelled, and GetRecords has
\* returned the cancellation error after two calls.
C15_Witness ==
    /\ pc["c1"] = "done" /\ op["c1"] = "get" /\ err["c1"] = "canceled"
    /\ Len(calls["c1"]) = 2
    /\ Len(result["c1"]) = PerPage

\* The provider ID that call i of the running batch of p addressed: the one
\* a create was answered with, or the one a delete or an update was keyed by.
Addressed(p, i) ==
    IF calls[p][i].fn = "CreateRecord" THEN DecimalValue(result[p][i].ID)
    ELSE calls[p][i].arg

\* The effect of call i, one of the first m calls of the batch, is in place
\* at the provider: a deleted record is gone, a created or updated one is
\* there with the fields of the last of those calls that addressed it.
EffectRemains(p, i, m) ==
    LET id   == Addressed(p, i)
        last == CHOOSE a \in i..m :
                    /\ Addressed(p, a) = id
                    /\ \A b \in (a + 1)..m : Addressed(p, b) # id
    IN  IF \E a \in i..m : Addressed(p, a) = id /\ calls[p][a].fn = "DeleteRecord"
        THEN \A j \in 1..Len(store) : store[j].ID # id
        ELSE \E j \in 1..Len(store) :
                /\ store[j].ID = id
                /\ [Name |-> store[j].Name, Data |-> store[j].Data,
                    Type |-> store[j].Type, TTL |-> store[j].TTL]
                      = calls[p][last].entry

\* C16: when a batch fails at its k-th record, the provider calls it issued
\* are one for each of the records 1..k, in input order, or for 1..k-1 only
\* when record k failed identifier resolution: no call is repeated and none
\* is made for a later record; what the calls for records 1..k-1 did at the
\* provider is still in place when the batch returns.
C16_PartialBatch ==
    \A p \in Procs :
        ( pc[p] = "done" /\ op[p] \in {"append", "delete", "set"} /\ err[p] # "none" ) =>
            LET k == recno[p]
                n == IF err[p] = "atoi" THEN k - 1 ELSE k
            IN  /\ k \in 1..Len(input[p])
                /\ Len(path[p]) = k
                /\ Len(calls[p]) = n
                /\ \A i \in 1..n : calls[p][i].recno = i
                /\ Len(result[p]) = k - 1
                /\ \A i \in 1..(k - 1) : EffectRemains(p, i, k - 1)

\* A SetRecords batch created its first record and failed at the provider
\* on its second; the record it created is still there.
C16_Witness ==
    \E p \in Procs :
        /\ pc[p] = "done" /\ op[p] = "set" /\ err[p] = "api" /\ recno[p] = 2
        /\ path[p] = <<"addDNSEntry", "updateDNSEntry">>
        /\ Len(calls[p]) = 2
        /\ nextID = FirstID + 1
        /\ store[Len(store)].ID = FirstID

\* The number a signed decimal string stands for.
SignedValue(s) ==
    IF s[1] = "-" THEN 0 - DecimalValue(Tail(s))
    ELSE IF s[1] = "+" THEN DecimalValue(Tail(s))
    ELSE DecimalValue(s)

\* C17: updateDNSEntry and removeDNSEntry of a record whose identifier
\* parses issue exactly one provider call, keyed by the number the
\* identifier stands for, and return the input record as it was handed in,
\* on success and on failure of that call alike; addDNSEntry returns the
\* input record as it was handed in when its call fails.
C17_OneCallAndInputBack ==
    \A p \in Procs :
        /\ ( pc[p] = "ret" /\ fn[p] \in {"updateDNSEntry", "removeDNSEntry"}
                /\ ~Unresolvable(Rec(p)) ) =>
              /\ Cardinality(CallsFor(p, recno[p])) = 1
              /\ \A i \in CallsFor(p, recno[p]) :
                    /\ calls[p][i].fn = IF fn[p] = "updateDNSEntry" THEN "EditRecord"
                                        ELSE "DeleteRecord"
                    /\ calls[p][i].arg = SignedValue(Rec(p).ID)
              /\ ret[p].recs = <<Rec(p)>>
        /\ ( pc[p] = "ret" /\ fn[p] = "addDNSEntry" /\ ret[p].err # "none" ) =>
              /\ Cardinality(CallsFor(p, recno[p])) = 1
              /\ ret[p].recs = <<Rec(p)>>

\* updateDNSEntry of a record with the identifier "+1" has made its one
\* call, keyed by 1, and returned the record with "+1" still on it.
C17_Witness ==
    \E p \in Procs :
        /\ pc[p] = "ret" /\ fn[p] = "updateDNSEntry" /\ ret[p].err = "none"
        /\ Rec(p).ID = <<"+", "1">>
        /\ ret[p].recs[1].ID = <<"+", "1">>
        /\ calls[p][Len(calls[p])].arg = 1

\* C19: within one listing the page numbers requested are strictly
\* increasing: each request after the first is for the current page the
\* previous response reported, plus one, which is beyond the page asked for
\* before; no page is requested twice, and against a provider that reports
\* the last of its N pages as last the listing makes at most N requests.
C19_PagesIncrease ==
    [][ \A p \in Procs :
          ( pc[p] = "resp" /\ fn[p] = "getDNSEntries" /\ pc'[p] = "call" ) =>
              /\ call'[p].arg = resp[p].links.cur + 1
              /\ call'[p].arg > call[p].arg
              /\ \A i, j \in 1..Len(calls'[p]) :
                    i < j => calls'[p][i].arg < calls'[p][j].arg
              /\ Len(calls'[p]) <= NumPages(Len(store)) ]_vars

\* A listing of a zone of three pages has asked for page 1 (as page 0), then
\* for pages 2 and 3, and has returned.
C19_Witness ==
    \E p \in Procs :
        /\ pc[p] = "done" /\ op[p] = "get" /\ err[p] = "none"
        /\ Len(calls[p]) = 3
        /\ calls[p][1].arg = 0 /\ calls[p][2].arg = 2 /\ calls[p][3].arg = 3

\* Caller p has invoked an operation that has not returned to it yet.
Running(p) == pc[p] \in {"facade", "lock", "call", "resp", "ret"}

\* C20: the mutex is held only by a caller that is inside getDNSEntries,
\* addDNSEntry, updateDNSEntry or removeDNSEntry, whichever way the others
\* left them, so that it is free whenever no operation is running; and under
\* fair scheduling, with provider calls that return, every operation invoked
\* gets the mutex for each of its records and returns to its caller.
C20_LockReleased ==
    /\ [](\A p \in Procs : mutex = p => InFlight(p))
    /\ []((\A p \in Procs : ~Running(p)) => mutex = "free")
    /\ \A p \in Procs : Running(p) ~> pc[p] = "done"

\* One caller's batch has returned after both its records, the second of
\* which it handed over while the other caller held the mutex, which that
\* caller still holds.
C20_Witness ==
    /\ pc["c1"] = "done" /\ op["c1"] = "set" /\ Len(result["c1"]) = 2
    /\ mutex = "c2" /\ pc["c2"] = "call"

\* Caller p is inside getDNSEntries, between its first page request and its
\* return.
Listing(p) == fn[p] = "getDNSEntries" /\ InFlight(p)

\* Caller p runs a batch and is between two of its records, or before the
\* first, or after the last.
BetweenRecords(p) ==
    op[p] \in {"append", "delete", "set"} /\ pc[p] \in {"facade", "lock", "ret"}

\* C21: a listing holds the mutex from before its first page request until
\* after its last one, and while it does no step of any caller changes what
\* the provider holds: no create, update or delete takes effect between two
\* of its page requests.  A batch holds the mutex for one record at a time:
\* it takes the free mutex for each record, gives it up when that record's
\* call has returned, and does not hold it between two records, when other
\* callers may take it.
C21_LockScope ==
    [][ \A p \in Procs :
          /\ Listing(p) =>
                /\ mutex = p
                /\ provider' = provider
                /\ pc'[p] \in {"call", "resp"} => mutex' = p
          /\ BetweenRecords(p) => mutex # p
          /\ ( BetweenRecords(p) /\ pc[p] = "lock" /\ pc'[p] = "call" ) =>
                mutex = "free" /\ mutex' = p
          /\ ( op[p] \in {"append", "delete", "set"} /\ pc[p] = "resp"
                /\ pc'[p] = "ret" ) =>
                mutex' = "free" ]_vars

\* Between the first and the second record of one caller's AppendRecords
\* the other caller's create went through: the batch's first record got the
\* first new ID, the other caller's record the one after it, and the batch
\* waits for the mutex with its second record.
C21_Witness ==
    /\ op["c1"] = "append" /\ recno["c1"] = 2 /\ pc["c1"] = "lock"
    /\ Len(result["c1"]) = 1 /\ result["c1"][1].ID = Itoa(FirstID)
    /\ mutex = "c2" /\ pc["c2"] = "resp"
    /\ call["c2"].fn = "CreateRecord" /\ resp["c2"].err = "none"
    /\ resp["c2"].id = FirstID + 1
    /\ store[Len(store)].ID = FirstID + 1

====
